---- MODULE Spec2Model ----
(***************************************************************************)
(* govanity (src/main.go): static HTML generator for Go vanity imports.    *)
(*                                                                         *)
(* Go strings are modelled as sequences of one-character strings, so that  *)
(* the string operations of the program (Split, TrimPrefix, HasPrefix,     *)
(* url.Parse, filepath.Join ...) are computed character by character.      *)
(***************************************************************************)
EXTENDS Integers, Sequences, FiniteSets, TLC

VARIABLES
    args,       \* arguments of the function under call (pure-function specifications)
    ret,        \* its return value, NoRet before the call
    omitHost,   \* toolchain: url.URL.String omits "//" for "scheme:/path" (Go >= 1.19)
    env,        \* what the outside world (GitHub API, file system, tools) answered so far
    recoverPanic, \* toolchain: template execution turns a panicking method call into an error
    pc,         \* where main/run stands
    cfg,        \* the config after config.Parse, NoCfg before
    repoURLs,   \* run: the result of getPotentialRepos
    pulled,     \* run: what getVanityPackages returned for repoURLs[1..Len(pulled)]
    liveTmp,    \* the temporary directories on disk, named by the index of their repository
    found,      \* getVanityPackages: imports collected by the scanner loop
    imports,    \* run: the packages collected from all repositories
    emitted,    \* run: how many of imports the page loop has handled
    created,    \* the HTML files on disk
    written,    \* those of them that hold a completely rendered page
    cnameFile,  \* the content of <out>/CNAME, <<>> when absent
    crashed,    \* the process died of a run-time panic
    exitCode    \* the exit code of the process, Running before it exits

callVars == <<args, ret, omitHost, env>>

runVars == <<recoverPanic, pc, cfg, repoURLs, pulled, liveTmp, found, imports, emitted,
             created, written, cnameFile, crashed, exitCode>>

vars == <<args, ret, omitHost, env, recoverPanic, pc, cfg, repoURLs, pulled, liveTmp, found,
          imports, emitted, created, written, cnameFile, crashed, exitCode>>

Running == 0 - 1

NoCfg == [parsed |-> FALSE]

\* the state of run in the specifications that call one function alone
RunIdle ==
    /\ recoverPanic = FALSE /\ pc = "idle" /\ cfg = NoCfg /\ repoURLs = <<>> /\ pulled = <<>>
    /\ liveTmp = {} /\ found = <<>> /\ imports = <<>> /\ emitted = 0 /\ created = {}
    /\ written = {} /\ cnameFile = <<>> /\ crashed = FALSE /\ exitCode = Running

NoEnv == <<>>

NoRet == [called |-> FALSE]

----------------------------------------------------------------------------
(* Bounds of the model *)

MaxImportLen == 4   \* longest import path handed to ImportPrefix
MaxPathLen == 5     \* largest pathLen handed to ImportPrefix
MaxHtmlLen == 4     \* longest import path handed to htmlPath
MaxBaseLen == 2     \* longest prefix handed to htmlPath
MaxSearch == 3      \* most entries of the search list handed to getPotentialRepos
MaxCommentLen == 3  \* longest import comment reported by go list
MaxPackages == 2    \* most packages reported by go list for one repository

----------------------------------------------------------------------------
(* package strings *)

Min(a, b) == IF a < b THEN a ELSE b

StringsUpTo(alphabet, n) == UNION {[1..k -> alphabet] : k \in 0..n}

HasPrefix(s, p) == Len(p) <= Len(s) /\ SubSeq(s, 1, Len(p)) = p

HasSuffix(s, p) == Len(p) <= Len(s) /\ SubSeq(s, Len(s) - Len(p) + 1, Len(s)) = p

TrimPrefix(s, p) == IF HasPrefix(s, p) THEN SubSeq(s, Len(p) + 1, Len(s)) ELSE s

ContainsRune(s, c) == \E i \in 1..Len(s) : s[i] = c

Count(s, c) == Cardinality({i \in 1..Len(s) : s[i] = c})

\* strings.Index for a one-character separator; 0 when absent (Go: -1)
Index(s, c) == IF ContainsRune(s, c) THEN CHOOSE i \in 1..Len(s) : s[i] = c /\ \A j \in 1..(i - 1) : s[j] # c ELSE 0

LastIndex(s, c) == IF ContainsRune(s, c) THEN CHOOSE i \in 1..Len(s) : s[i] = c /\ \A j \in (i + 1)..Len(s) : s[j] # c ELSE 0

\* strings.Split(s, c) for a one-character separator: Count(s, c) + 1 pieces
RECURSIVE Split(_, _)
Split(s, c) ==
    IF ~ContainsRune(s, c) THEN <<s>>
    ELSE <<SubSeq(s, 1, Index(s, c) - 1)>> \o Split(SubSeq(s, Index(s, c) + 1, Len(s)), c)

\* strings.Join(a, sep); sep is a string
RECURSIVE Join(_, _)
Join(a, sep) ==
    IF Len(a) = 0 THEN <<>>
    ELSE IF Len(a) = 1 THEN a[1]
    ELSE a[1] \o sep \o Join(Tail(a), sep)

\* strings.Cut(s, c): before and after the first c; after is empty when c is absent
CutBefore(s, c) == IF ContainsRune(s, c) THEN SubSeq(s, 1, Index(s, c) - 1) ELSE s

CutAfter(s, c) == IF ContainsRune(s, c) THEN SubSeq(s, Index(s, c) + 1, Len(s)) ELSE <<>>

----------------------------------------------------------------------------
(* package net/url, as called from ImportPrefix and config.Parse.          *)
(* Computed over the characters  x y / : ? # and space; the alphabet holds *)
(* no '%', '@', '[', digit or upper-case letter, so escapes, userinfo,     *)
(* IPv6 literals, numeric ports and scheme lower-casing do not arise.      *)

IsLetter(c) == c \in {"x", "y", "p", "q", "a", "g", "u", "v", "r", "s", "t"}

\* getScheme: [err, scheme, rest]
RECURSIVE getSchemeFrom(_, _)
getSchemeFrom(s, i) ==
    IF i > Len(s) THEN [err |-> FALSE, scheme |-> <<>>, rest |-> s]
    ELSE IF IsLetter(s[i]) THEN getSchemeFrom(s, i + 1)
    ELSE IF s[i] \in {"+", "-", "."} THEN
        IF i = 1 THEN [err |-> FALSE, scheme |-> <<>>, rest |-> s] ELSE getSchemeFrom(s, i + 1)
    ELSE IF s[i] = ":" THEN
        IF i = 1 THEN [err |-> TRUE, scheme |-> <<>>, rest |-> <<>>]
        ELSE [err |-> FALSE, scheme |-> SubSeq(s, 1, i - 1), rest |-> SubSeq(s, i + 1, Len(s))]
    ELSE [err |-> FALSE, scheme |-> <<>>, rest |-> s]

getScheme(s) == getSchemeFrom(s, 1)

\* shouldEscape(c, encodeHost): a space is not allowed in a host name
ValidHostChar(c) == c # " "

\* parseHost: a port, when present, follows the last ':' and is made of digits
validOptionalPort(port) == Len(port) <= 1

parseHostOK(host) ==
    /\ \A i \in 1..Len(host) : ValidHostChar(host[i])
    /\ ContainsRune(host, ":") => validOptionalPort(SubSeq(host, LastIndex(host, ":"), Len(host)))

URLError == [err |-> TRUE, Scheme |-> <<>>, Opaque |-> <<>>, Host |-> <<>>, Path |-> <<>>,
             RawQuery |-> <<>>, ForceQuery |-> FALSE, Fragment |-> <<>>, OmitHost |-> FALSE]

\* parse(rawURL, viaRequest = false), the fragment already cut off
parse(u) ==
    LET sch == getScheme(u)
        forceQuery == HasSuffix(sch.rest, <<"?">>) /\ Count(sch.rest, "?") = 1
        rest == IF forceQuery THEN SubSeq(sch.rest, 1, Len(sch.rest) - 1) ELSE CutBefore(sch.rest, "?")
        rawQuery == IF forceQuery THEN <<>> ELSE CutAfter(sch.rest, "?")
        base == [URLError EXCEPT !.err = FALSE, !.Scheme = sch.scheme,
                                 !.RawQuery = rawQuery, !.ForceQuery = forceQuery]
        hasAuthority == (sch.scheme # <<>> \/ ~HasPrefix(rest, <<"/", "/", "/">>)) /\ HasPrefix(rest, <<"/", "/">>)
        afterSlashes == SubSeq(rest, 3, Len(rest))
        authority == CutBefore(afterSlashes, "/")
        pathAfterAuthority == SubSeq(afterSlashes, Len(authority) + 1, Len(afterSlashes))
    IN  IF u = <<"*">> THEN [URLError EXCEPT !.err = FALSE, !.Path = <<"*">>]
        ELSE IF sch.err THEN URLError
        ELSE IF ~HasPrefix(rest, <<"/">>) /\ sch.scheme # <<>> THEN [base EXCEPT !.Opaque = rest]
        ELSE IF ~HasPrefix(rest, <<"/">>) /\ ContainsRune(CutBefore(rest, "/"), ":") THEN URLError
        ELSE IF hasAuthority THEN
            IF parseHostOK(authority) THEN [base EXCEPT !.Host = authority, !.Path = pathAfterAuthority]
            ELSE URLError
        ELSE [base EXCEPT !.Path = rest, !.OmitHost = (sch.scheme # <<>> /\ HasPrefix(rest, <<"/">>))]

\* url.Parse: cut the fragment at the first '#', parse the rest
Parse(rawURL) ==
    LET u == parse(CutBefore(rawURL, "#"))
    IN  IF u.err THEN URLError ELSE [u EXCEPT !.Fragment = CutAfter(rawURL, "#")]

\* escape(s, encodePath): of the alphabet only ' ' and '?' are rewritten
RECURSIVE escapePath(_)
escapePath(s) ==
    IF s = <<>> THEN <<>>
    ELSE (IF s[1] = " " THEN <<"%", "2", "0">>
          ELSE IF s[1] = "?" THEN <<"%", "3", "F">>
          ELSE <<s[1]>>) \o escapePath(Tail(s))

\* escape(s, encodeFragment): of the alphabet only ' ' and '#' are rewritten
RECURSIVE escapeFragment(_)
escapeFragment(s) ==
    IF s = <<>> THEN <<>>
    ELSE (IF s[1] = " " THEN <<"%", "2", "0">>
          ELSE IF s[1] = "#" THEN <<"%", "2", "3">>
          ELSE <<s[1]>>) \o escapeFragment(Tail(s))

\* (*URL).String; omit says whether this toolchain honours OmitHost
URLString(u, omit) ==
    LET scheme == IF u.Scheme # <<>> THEN u.Scheme \o <<":">> ELSE <<>>
        slashes == IF (u.Scheme # <<>> \/ u.Host # <<>>)
                      /\ ~(omit /\ u.OmitHost /\ u.Host = <<>>)
                      /\ (u.Host # <<>> \/ u.Path # <<>>)
                   THEN <<"/", "/">> ELSE <<>>
        authority == IF u.Scheme # <<>> \/ u.Host # <<>> THEN slashes \o u.Host ELSE <<>>
        path == escapePath(u.Path)
        sep == IF path # <<>> /\ path[1] # "/" /\ u.Host # <<>> THEN <<"/">> ELSE <<>>
        dot == IF scheme \o authority \o sep = <<>> /\ ContainsRune(CutBefore(path, "/"), ":")
               THEN <<".", "/">> ELSE <<>>
        hier == IF u.Opaque # <<>> THEN u.Opaque ELSE authority \o sep \o dot \o path
        query == IF u.ForceQuery \/ u.RawQuery # <<>> THEN <<"?">> \o u.RawQuery ELSE <<>>
        fragment == IF u.Fragment # <<>> THEN <<"#">> \o escapeFragment(u.Fragment) ELSE <<>>
    IN  scheme \o hier \o query \o fragment

----------------------------------------------------------------------------
(* vanityImport.ImportPrefix *)

Returned(s) == [called |-> TRUE, panic |-> FALSE, val |-> s]

Panicked == [called |-> TRUE, panic |-> TRUE, val |-> <<>>]

\* a plausible slip: the leading pathLen segments are dropped, not the trailing ones
ImportPrefixDropsLeading(Import, pathLen, omit) ==
    LET importURL == Parse(Import)
        importPathSegments == Split(importURL.Path, "/")
        n == Len(importPathSegments) - pathLen
    IN  IF importURL.err THEN Returned(<<>>)
        ELSE IF n < 0 THEN Panicked
        ELSE Returned(URLString([importURL EXCEPT !.Path = Join(SubSeq(importPathSegments, pathLen + 1, Len(importPathSegments)), <<"/">>)], omit))

\* a slice expression a[:n] with n < 0 panics: slice bounds out of range
ImportPrefix(Import, pathLen, omit) ==
    LET importURL == Parse(Import)
        importPathSegments == Split(importURL.Path, "/")
        n == Len(importPathSegments) - pathLen
    IN  IF importURL.err THEN Returned(<<>>)
        ELSE IF n < 0 THEN Panicked
        ELSE Returned(URLString([importURL EXCEPT !.Path = Join(SubSeq(importPathSegments, 1, n), <<"/">>)], omit))

ImportChars == {"x", "y", "/", ":", "?", "#", " "}

InitPrefix ==
    /\ args \in [Import : StringsUpTo(ImportChars, MaxImportLen), pathLen : 0..MaxPathLen]
    /\ ret = NoRet
    /\ omitHost \in BOOLEAN
    /\ env = NoEnv
    /\ RunIdle

CallImportPrefix ==
    /\ ~ret.called
    /\ ret' = ImportPrefix(args.Import, args.pathLen, omitHost)
    /\ UNCHANGED <<args, omitHost, env>>
    /\ UNCHANGED runVars

NextPrefix == CallImportPrefix

SpecPrefix == InitPrefix /\ [][NextPrefix]_vars

\* P with its last d '/'-separated segments removed, the rest joined by '/'
TrimSegments(P, d) == Join(SubSeq(Split(P, "/"), 1, Len(Split(P, "/")) - d), <<"/">>)

\* an import path that is a bare relative or rooted path: no scheme or
\* authority marker, no query, no fragment, no character that escaping rewrites
PlainImportPath(P) ==
    /\ ~ContainsRune(P, "?") /\ ~ContainsRune(P, "#") /\ ~ContainsRune(P, " ")
    /\ ~HasPrefix(P, <<"/", "/">>)
    /\ ~ContainsRune(CutBefore(P, "/"), ":")

\* C1 as stated: for every import path P that url.Parse accepts and every depth
\* d <= number of segments of P, ImportPrefix returns P with its last d segments
\* removed (d = 0: P itself).
C1_AsStated ==
    (ret.called /\ ~Parse(args.Import).err /\ args.pathLen <= Len(Split(args.Import, "/")))
        => ret = Returned(TrimSegments(args.Import, args.pathLen))

\* C1 amended: for every plain import path P (no ':' in its first segment, not
\* starting with "//", no '?', '#' or character that path escaping rewrites) and
\* every depth d <= number of segments of P, ImportPrefix returns P with its last
\* d segments removed; for d = 0 that is P itself.
C1_PlainPathTrimmed ==
    (ret.called /\ PlainImportPath(args.Import) /\ args.pathLen <= Len(Split(args.Import, "/")))
        => ret = Returned(TrimSegments(args.Import, args.pathLen))

C1_Witness ==
    /\ ret.called /\ args.Import = <<"x", "/", "y">> /\ args.pathLen = 1
    /\ ret = Returned(<<"x">>)

\* C2: ImportPrefix never crashes: an unparsable import path yields "", and a
\* depth larger than the number of path segments is clamped to that number.
C2_NeverCrashesDepthClamped ==
    ret.called =>
        /\ ~ret.panic
        /\ Parse(args.Import).err => ret.val = <<>>
        /\ ret = ImportPrefix(args.Import, Min(args.pathLen, Len(Split(Parse(args.Import).Path, "/"))), omitHost)

----------------------------------------------------------------------------
(* package path/filepath (Unix separators) *)

Last(s) == s[Len(s)]

\* the element stack of Clean: "" and "." are dropped, ".." backtracks where it can
RECURSIVE cleanElements(_, _, _)
cleanElements(elems, stack, rooted) ==
    IF elems = <<>> THEN stack
    ELSE IF Head(elems) \in {<<>>, <<".">>} THEN cleanElements(Tail(elems), stack, rooted)
    ELSE IF Head(elems) = <<".", ".">> THEN
        IF Len(stack) > 0 /\ Last(stack) # <<".", ".">>
        THEN cleanElements(Tail(elems), SubSeq(stack, 1, Len(stack) - 1), rooted)
        ELSE IF rooted THEN cleanElements(Tail(elems), stack, rooted)
        ELSE cleanElements(Tail(elems), Append(stack, <<".", ".">>), rooted)
    ELSE cleanElements(Tail(elems), Append(stack, Head(elems)), rooted)

\* filepath.Clean
Clean(path) ==
    LET rooted == HasPrefix(path, <<"/">>)
        out == (IF rooted THEN <<"/">> ELSE <<>>) \o Join(cleanElements(Split(path, "/"), <<>>, rooted), <<"/">>)
    IN  IF out = <<>> THEN <<".">> ELSE out

\* filepath.Join: empty elements before the first non-empty one are ignored
RECURSIVE FilepathJoin(_)
FilepathJoin(elem) ==
    IF elem = <<>> THEN <<>>
    ELSE IF Head(elem) = <<>> THEN FilepathJoin(Tail(elem))
    ELSE Clean(Join(elem, <<"/">>))

----------------------------------------------------------------------------
(* vanityImport.htmlPath *)

DotHtml == <<".", "h", "t", "m", "l">>

htmlPath(Import, base, dir) == FilepathJoin(<<dir, TrimPrefix(Import, base)>>) \o DotHtml

HtmlChars == {"p", "x", "/", "."}

OutDirs == {<<"o">>, <<"/", "o">>, <<"o", "/">>, <<"o", "/", "w">>}

\* htmlPath is only called on matched packages: Import starts with the prefix,
\* and the prefix is not empty (config.Parse)
InitHtmlPath ==
    /\ args \in {a \in [Import : StringsUpTo(HtmlChars, MaxHtmlLen),
                         base : StringsUpTo(HtmlChars, MaxBaseLen) \ {<<>>},
                         dir : OutDirs] : HasPrefix(a.Import, a.base)}
    /\ ret = NoRet
    /\ omitHost = FALSE
    /\ env = NoEnv
    /\ RunIdle

CallHtmlPath ==
    /\ ~ret.called
    /\ ret' = Returned(htmlPath(args.Import, args.base, args.dir))
    /\ UNCHANGED <<args, omitHost, env>>
    /\ UNCHANGED runVars

NextHtmlPath == CallHtmlPath

SpecHtmlPath == InitHtmlPath /\ [][NextHtmlPath]_vars

RECURSIVE TrimLeftSlashes(_)
TrimLeftSlashes(s) == IF HasPrefix(s, <<"/">>) THEN TrimLeftSlashes(Tail(s)) ELSE s

\* C9: for a matched package with import path I, prefix B and output directory
\* out, htmlPath returns <out>/<I with B removed from its front>.html, and that
\* path lies inside the out directory (also when I equals B).
C9_HtmlPathInsideOut ==
    ret.called =>
        /\ ret.val = Clean(args.dir) \o <<"/">> \o TrimLeftSlashes(TrimPrefix(args.Import, args.base)) \o DotHtml
        /\ HasPrefix(ret.val, Clean(args.dir) \o <<"/">>)

----------------------------------------------------------------------------
(* GitHub, as seen through gh.Repositories: two owners and their            *)
(* repositories; any other owner name is unknown and its listing fails.     *)

GithubRepos(owner) ==
    IF owner = <<"u">> THEN
        << [name |-> <<"a">>, fork |-> FALSE, language |-> "Go", languages |-> {"Go"}],
           [name |-> <<"b">>, fork |-> TRUE, language |-> "Go", languages |-> {"Go"}],
           [name |-> <<"c">>, fork |-> FALSE, language |-> "C", languages |-> {"C", "Go"}],
           [name |-> <<"d">>, fork |-> FALSE, language |-> "C", languages |-> {"C"}] >>
    ELSE IF owner = <<"v">> THEN
        << [name |-> <<"a">>, fork |-> FALSE, language |-> "", languages |-> {"Go"}],
           [name |-> <<"b">>, fork |-> TRUE, language |-> "C", languages |-> {"C", "Go"}] >>
    ELSE <<>>

KnownOwners == {<<"u">>, <<"v">>}

\* the clone URL of owner/name; the fixed literal is kept as one token
GithubURL(v) == <<"https://github.com/">> \o v

\* repo.GetSVNURL()
SVNURL(owner, repo) == GithubURL(owner \o <<"/">> \o repo.name)

\* The answers of the API to the k-th owner scan: listErr (Repositories.List
\* failed) and langErr (the repositories whose ListLanguages call failed).
LangQueried(owner) ==
    {GithubRepos(owner)[i].name : i \in {j \in 1..Len(GithubRepos(owner)) :
        ~GithubRepos(owner)[j].fork /\ GithubRepos(owner)[j].language # "Go"}}

ScanAnswers(owner) ==
    {[listErr |-> TRUE, langErr |-> {}]}
    \cup (IF owner \in KnownOwners
          THEN {[listErr |-> FALSE, langErr |-> e] : e \in SUBSET LangQueried(owner)}
          ELSE {})

----------------------------------------------------------------------------
(* getPotentialRepos *)

IsRepoEntry(v) == ContainsRune(v, "/")

IsUserEntry(v) == ~ContainsRune(v, "/")

ToSet(s) == {s[i] : i \in 1..Len(s)}

\* a plausible slip: the fork check is left out
ScanIncludesForks(username, repo, searchRepos, answer) ==
    /\ (username \o <<"/">> \o repo.name) \notin searchRepos
    /\ \/ repo.language = "Go"
       \/ repo.name \notin answer.langErr /\ "Go" \in repo.languages

\* the body of the loop over one owner's repositories: TRUE when the repository
\* is appended to repoURLs
ScanIncludes(username, repo, searchRepos, answer) ==
    /\ (username \o <<"/">> \o repo.name) \notin searchRepos
    /\ ~repo.fork
    /\ \/ repo.language = "Go"
       \/ repo.name \notin answer.langErr /\ "Go" \in repo.languages

\* the URLs one owner scan appends
ScanOwner(username, searchRepos, answer) ==
    IF answer.listErr THEN <<>>
    ELSE LET repos == GithubRepos(username)
             kept == SelectSeq(repos, LAMBDA repo : ScanIncludes(username, repo, searchRepos, answer))
         IN  [i \in 1..Len(kept) |-> SVNURL(username, kept[i])]

RECURSIVE ScanOwners(_, _, _)
ScanOwners(usernames, searchRepos, answers) ==
    IF usernames = <<>> THEN <<>>
    ELSE ScanOwner(Head(usernames), searchRepos, Head(answers))
         \o ScanOwners(Tail(usernames), searchRepos, Tail(answers))

getPotentialRepos(search, answers) ==
    LET explicit == SelectSeq(search, IsRepoEntry)
        usernames == SelectSeq(search, IsUserEntry)
        searchRepos == ToSet(explicit)
    IN  [i \in 1..Len(explicit) |-> GithubURL(explicit[i])] \o ScanOwners(usernames, searchRepos, answers)

\* the answers the API can give to the scans of a search list
ApiAnswers(search) ==
    LET usernames == SelectSeq(search, IsUserEntry)
    IN  {a \in [1..Len(usernames) -> UNION {ScanAnswers(o) : o \in KnownOwners}] :
            \A k \in 1..Len(usernames) : a[k] \in ScanAnswers(usernames[k])}

\* search-list entries: owners (one unknown), and owner/name references
SearchEntries ==
    {<<"u">>, <<"v">>, <<"w">>, <<"u", "/", "a">>, <<"u", "/", "c">>, <<"v", "/", "b">>}

InitRepos ==
    /\ args \in [search : UNION {[1..n -> SearchEntries] : n \in 1..MaxSearch}]
    /\ ret = NoRet
    /\ omitHost = FALSE
    /\ env = NoEnv
    /\ RunIdle

CallGetPotentialRepos ==
    /\ ~ret.called
    /\ \E answers \in ApiAnswers(args.search) :
        /\ env' = answers
        /\ ret' = Returned(getPotentialRepos(args.search, answers))
    /\ UNCHANGED <<args, omitHost>>
    /\ UNCHANGED runVars

NextRepos == CallGetPotentialRepos

SpecRepos == InitRepos /\ [][NextRepos]_vars

Occurrences(s, x) == Cardinality({i \in 1..Len(s) : s[i] = x})

\* the k-th scanned owner of the search list
ScannedOwner(k) == SelectSeq(args.search, IsUserEntry)[k]

NumScans == Len(SelectSeq(args.search, IsUserEntry))

ExplicitlyListed(owner, repo) ==
    \E i \in 1..Len(args.search) : args.search[i] = owner \o <<"/">> \o repo.name

AllRepos == {[owner |-> o, repo |-> GithubRepos(o)[i]] : o \in KnownOwners, i \in 1..2}
            \cup {[owner |-> <<"u">>, repo |-> GithubRepos(<<"u">>)[i]] : i \in 3..4}

\* every explicit owner/name entry is in the result, whatever the API answered
ExplicitAlwaysIncluded ==
    \A i \in 1..Len(args.search) :
        IsRepoEntry(args.search[i]) => Occurrences(ret.val, GithubURL(args.search[i])) >= 1

\* C6 as stated: explicit entries are included unconditionally; a scanned
\* repository is included by the scan iff it is not explicitly listed, is not a
\* fork, and its primary language is Go or Go appears in its language
\* breakdown; a listing error for one owner does not stop the other owners.
C6_AsStated ==
    ret.called =>
        /\ ExplicitAlwaysIncluded
        /\ \A r \in AllRepos :
            (~ExplicitlyListed(r.owner, r.repo)
                /\ \E k \in 1..NumScans : ScannedOwner(k) = r.owner /\ ~env[k].listErr)
            => (Occurrences(ret.val, SVNURL(r.owner, r.repo)) >= 1
                <=> (~r.repo.fork /\ (r.repo.language = "Go" \/ "Go" \in r.repo.languages)))

\* C6 amended: as stated, except that a repository whose primary language is
\* not Go is included only if its ListLanguages call succeeds and reports Go.
\* A repository is in the result iff it is explicitly listed, or some scan of
\* its owner succeeded and found it not listed, not a fork, and Go (primary
\* language, or a successful breakdown query naming Go); the scan adds no copy
\* of an explicitly listed repository.
C6_ScanFilter ==
    ret.called =>
        /\ ExplicitAlwaysIncluded
        /\ \A r \in AllRepos :
            IF ExplicitlyListed(r.owner, r.repo)
            THEN Occurrences(ret.val, SVNURL(r.owner, r.repo))
                 = Occurrences(args.search, r.owner \o <<"/">> \o r.repo.name)
            ELSE Occurrences(ret.val, SVNURL(r.owner, r.repo)) >= 1
                 <=> \E k \in 1..NumScans :
                        /\ ScannedOwner(k) = r.owner /\ ~env[k].listErr
                        /\ ~r.repo.fork
                        /\ \/ r.repo.language = "Go"
                           \/ r.repo.name \notin env[k].langErr /\ "Go" \in r.repo.languages

\* the first owner's listing fails, a later owner's repository is still returned,
\* a fork is skipped and a listed repository is not added twice
C6_Witness ==
    /\ ret.called
    /\ args.search = <<<<"w">>, <<"u">>, <<"u", "/", "c">>>>
    /\ env[1].listErr /\ ~env[2].listErr
    /\ ret.val = <<GithubURL(<<"u", "/", "c">>), GithubURL(<<"u", "/", "a">>)>>

\* C7: the list returned by getPotentialRepos holds no repository twice.
C7_NoDuplicateURLs ==
    ret.called => \A i, j \in 1..Len(ret.val) : ret.val[i] = ret.val[j] => i = j

----------------------------------------------------------------------------
(* getVanityPackages: the scan of the output of                             *)
(*   go list -f={{.ImportComment}}:{{.Dir}} ./...                           *)

\* the temporary directory after EvalSymlinks, and the package directories of
\* a clone made into it
TmpDir == <<"/", "t">>

RepoDirs == {TmpDir, TmpDir \o <<"/", "k">>, TmpDir \o <<"/", "k", "/", "k">>}

\* one line of go list for a package with that import comment and directory
ListLine(pkg) == pkg.ImportComment \o <<":">> \o pkg.Dir

\* filepath.EvalSymlinks(path): a directory of the clone resolves to itself;
\* "" and "/" resolve; any other path resolves (to its Clean form) when the
\* file system has such an entry (exists) and is an error otherwise
EvalSymlinks(path, exists) ==
    IF path \in RepoDirs THEN [err |-> FALSE, dir |-> path]
    ELSE IF path = <<>> \/ path = <<"/">> \/ exists THEN [err |-> FALSE, dir |-> Clean(path)]
    ELSE [err |-> TRUE, dir |-> <<>>]

\* strings.TrimLeft(s, "/\\")
RECURSIVE TrimLeftSeparators(_)
TrimLeftSeparators(s) ==
    IF s # <<>> /\ s[1] \in {"/", "\\"} THEN TrimLeftSeparators(Tail(s)) ELSE s

\* lines 276-280
PathLen(dir, tmpDir) ==
    IF dir = tmpDir THEN 0
    ELSE Len(Split(TrimLeftSeparators(TrimPrefix(dir, tmpDir)), "/"))

ScanOK(pkgs) == [err |-> "", imports |-> pkgs]

ScanFailed(why) == [err |-> why, imports |-> <<>>]

\* the scanner loop, lines 263-287: the imports found, or the error returned.
\* exists[i] is the file system's answer for the directory field of line i.
\* s[1] of a line without ':' is an index out of range.
RECURSIVE ScanLines(_, _, _, _, _)
ScanLines(lines, base, url, exists, acc) ==
    IF lines = <<>> THEN ScanOK(acc)
    ELSE IF ~HasPrefix(Head(lines), base) THEN ScanLines(Tail(lines), base, url, Tail(exists), acc)
    ELSE LET s == Split(Head(lines), ":")
             resolved == EvalSymlinks(s[2], Head(exists))
         IN  IF Len(s) < 2 THEN ScanFailed("panic")
             ELSE IF resolved.err THEN ScanFailed("EvalSymlinks dir")
             ELSE ScanLines(Tail(lines), base, url, Tail(exists),
                     Append(acc, [Import |-> s[1], RepoURL |-> url, pathLen |-> PathLen(resolved.dir, TmpDir)]))

\* the places where getVanityPackages returns an error that is not a line's
GvStages == {"TempDir", "EvalSymlinks", "clone", "StdoutPipe", "Start", "scanner", "Wait"}

\* the whole function: fail names the stage the outside world makes fail ("" for none)
getVanityPackages(lines, url, base, fail, exists) ==
    IF fail \in {"TempDir", "EvalSymlinks", "clone", "StdoutPipe", "Start"} THEN ScanFailed(fail)
    ELSE LET scan == ScanLines(lines, base, url, exists, <<>>)
         IN  IF scan.err # "" THEN scan
             ELSE IF fail \in {"scanner", "Wait"} THEN ScanFailed(fail)
             ELSE scan

CommentChars == {"p", "q", ":"}

PackageLists ==
    UNION {[1..n -> [ImportComment : StringsUpTo(CommentChars, MaxCommentLen),
                     Dir : {TmpDir, TmpDir \o <<"/", "k">>}]] : n \in 0..MaxPackages}

\* the prefix is one config.Parse accepts
InitPackages ==
    /\ args \in {a \in [packages : PackageLists,
                         base : StringsUpTo(CommentChars, MaxBaseLen) \ {<<>>}] :
                    ~Parse(<<"/", "/">> \o a.base).err}
    /\ ret = NoRet
    /\ omitHost = FALSE
    /\ env = NoEnv
    /\ RunIdle

CallGetVanityPackages ==
    /\ ~ret.called
    /\ \E fail \in GvStages \cup {""}, exists \in [1..Len(args.packages) -> BOOLEAN] :
        /\ env' = [fail |-> fail, exists |-> exists]
        /\ ret' = Returned(getVanityPackages([i \in 1..Len(args.packages) |-> ListLine(args.packages[i])],
                                             GithubURL(<<"u", "/", "a">>), args.base, fail, exists))
    /\ UNCHANGED <<args, omitHost>>
    /\ UNCHANGED runVars

NextPackages == CallGetVanityPackages

SpecPackages == InitPackages /\ [][NextPackages]_vars

\* the packages of the listing whose declared import path starts with the prefix
MatchedPackages(packages, base) == SelectSeq(packages, LAMBDA pkg : HasPrefix(pkg.ImportComment, base))

\* C8: when the clone and the listing succeed, getVanityPackages returns exactly
\* one package per listed line whose declared import path starts with the
\* prefix, carrying that declared import path, and none for any other line,
\* also when declared paths or the prefix contain ':'.
C8_ExactlyTheMatchedPackages ==
    (ret.called /\ env.fail = "") =>
        /\ ret.val.err = ""
        /\ Len(ret.val.imports) = Len(MatchedPackages(args.packages, args.base))
        /\ \A i \in 1..Len(ret.val.imports) :
            ret.val.imports[i].Import = MatchedPackages(args.packages, args.base)[i].ImportComment

----------------------------------------------------------------------------
(* config.Parse *)

RECURSIVE TrimSpaceLeft(_)
TrimSpaceLeft(s) == IF s # <<>> /\ s[1] = " " THEN TrimSpaceLeft(Tail(s)) ELSE s

RECURSIVE TrimSpaceRight(_)
TrimSpaceRight(s) == IF s # <<>> /\ Last(s) = " " THEN TrimSpaceRight(SubSeq(s, 1, Len(s) - 1)) ELSE s

\* strings.TrimSpace
TrimSpace(s) == TrimSpaceRight(TrimSpaceLeft(s))

\* lines 167-172: the trimmed, non-empty pieces of the search string
SearchList(search) ==
    LET pieces == Split(search, ",")
        trimmed == [i \in 1..Len(pieces) |-> TrimSpace(pieces[i])]
    IN  SelectSeq(trimmed, LAMBDA v : v # <<>>)

ParseError == [parsed |-> TRUE, err |-> TRUE, prefixURL |-> URLError, searchList |-> <<>>]

\* (*config).Parse on the merged settings; out is not looked at
ConfigParse(prefix, search, out) ==
    IF prefix = <<>> THEN ParseError
    ELSE IF Parse(<<"/", "/">> \o prefix).err THEN ParseError
    ELSE IF search = <<>> THEN ParseError
    ELSE [parsed |-> TRUE, err |-> FALSE, prefixURL |-> Parse(<<"/", "/">> \o prefix),
          searchList |-> SearchList(search)]

----------------------------------------------------------------------------
(* The repositories behind the clone URLs: what go list reports in a clone. *)
(* A URL that names no repository cannot be cloned.                         *)

Pkg(comment, dir) == [ImportComment |-> comment, Dir |-> dir]

RepoPackages(url) ==
    IF url = GithubURL(<<"u", "/", "a">>) THEN
        << Pkg(<<"p", "/", "a">>, TmpDir),
           Pkg(<<"p", "/", "a", "/", "k">>, TmpDir \o <<"/", "k">>),
           Pkg(<<>>, TmpDir \o <<"/", "k", "/", "k">>),
           Pkg(<<"p", ":", "a">>, TmpDir \o <<"/", "k">>) >>
    ELSE IF url = GithubURL(<<"u", "/", "c">>) THEN
        << Pkg(<<"p">>, TmpDir \o <<"/", "k", "/", "k">>) >>
    ELSE IF url = GithubURL(<<"v", "/", "a">>) THEN
        << Pkg(<<"q", "/", "a">>, TmpDir), Pkg(<<"p", "/", "v">>, TmpDir \o <<"/", "k">>) >>
    ELSE <<>>

Cloneable(url) ==
    url \in {GithubURL(<<"u", "/", "a">>), GithubURL(<<"u", "/", "c">>), GithubURL(<<"v", "/", "a">>)}

----------------------------------------------------------------------------
(* main, run *)

\* the process's command line and environment, after merging flags over
\* environment variables: whether os.Args has an argument, whether flag.Parse
\* accepts the flags, and the settings
PrefixInputs == {<<"p">>, <<>>, <<"p", " ">>}

SearchInputs ==
    { <<"u">>,
      <<"u", "/", "c", ",", "w", "/", "x">>,
      <<" ", "u", "/", "a", " ", ",", "v">>,
      <<"w", "/", "x", ",", "u", "/", "a", ",", "u", "/", "a">>,
      <<",", " ">>,
      <<>> }

OutInputs == {<<"o">>, <<>>}

NoAnswers == [answers |-> <<>>, fileErr |-> {}, cnameErr |-> FALSE]

Init ==
    /\ args \in [hasArgs : BOOLEAN, flagsOK : BOOLEAN, prefix : PrefixInputs,
                  search : SearchInputs, out : OutInputs, cname : BOOLEAN]
    /\ ret = NoRet
    /\ omitHost \in BOOLEAN
    /\ env = NoAnswers
    /\ recoverPanic \in BOOLEAN
    /\ pc = "configuration"
    /\ cfg = NoCfg
    /\ repoURLs = <<>> /\ pulled = <<>> /\ liveTmp = {} /\ found = <<>>
    /\ imports = <<>> /\ emitted = 0 /\ created = {} /\ written = {}
    /\ cnameFile = <<>> /\ crashed = FALSE /\ exitCode = Running

\* os.Exit(code), or main returning
Exit(code) == pc' = "exited" /\ exitCode' = code

\* configuration(), and run's and main's handling of its error
Configuration ==
    /\ pc = "configuration"
    /\ LET parsed == ConfigParse(args.prefix, args.search, args.out)
       IN  IF ~args.hasArgs \/ ~args.flagsOK THEN Exit(2) /\ UNCHANGED cfg
           ELSE IF parsed.err THEN Exit(1) /\ cfg' = parsed
           ELSE pc' = "getPotentialRepos" /\ cfg' = parsed /\ UNCHANGED exitCode
    /\ UNCHANGED <<callVars, recoverPanic, repoURLs, pulled, liveTmp, found, imports, emitted,
                   created, written, cnameFile, crashed>>

\* the loop over repoURLs: the next repository, or the page loop
AfterPull(urls, done) == IF Len(done) < Len(urls) THEN "pull" ELSE "emit"

\* line 94; getPotentialRepos returns no error
Enumerate ==
    /\ pc = "getPotentialRepos"
    /\ \E answers \in ApiAnswers(cfg.searchList) :
        /\ env' = [env EXCEPT !.answers = answers]
        /\ repoURLs' = getPotentialRepos(cfg.searchList, answers)
        /\ pc' = AfterPull(repoURLs', pulled)
    /\ UNCHANGED <<args, ret, omitHost, recoverPanic, cfg, pulled, liveTmp, found, imports, emitted,
                   created, written, cnameFile, crashed, exitCode>>

\* the repository getVanityPackages is working on
Current == Len(pulled) + 1

\* a plausible slip: the removal is deferred only once the clone has succeeded
CleanupDeferredAfterClone(live, id, stage) ==
    IF stage \in {"EvalSymlinks", "clone"} THEN live ELSE live \ {id}

\* defer os.RemoveAll(tmpDir), line 238: runs on every return after TempDir succeeded
DeferredCleanup(live, id, stage) == live \ {id}

\* getVanityPackages returns result from stage (the deferred removal runs), and
\* run's loop body handles it: an error is printed and the loop continues
GvReturn(result, stage) ==
    /\ liveTmp' = DeferredCleanup(liveTmp, Current, stage)
    /\ pulled' = Append(pulled, result)
    /\ imports' = IF result.err = "" THEN imports \o result.imports ELSE imports
    /\ found' = <<>>
    /\ pc' = AfterPull(repoURLs, pulled')

\* ioutil.TempDir, lines 234-238: on failure nothing was created
GvTempDir ==
    /\ pc = "pull"
    /\ \/ /\ pulled' = Append(pulled, ScanFailed("TempDir"))
          /\ pc' = AfterPull(repoURLs, pulled')
          /\ UNCHANGED <<liveTmp, found, imports>>
       \/ /\ liveTmp' = liveTmp \cup {Current}
          /\ pc' = "gvEvalSymlinks"
          /\ UNCHANGED <<pulled, found, imports>>
    /\ UNCHANGED <<callVars, recoverPanic, cfg, repoURLs, emitted, created, written, cnameFile,
                   crashed, exitCode>>

\* lines 240-243
GvEvalSymlinks ==
    /\ pc = "gvEvalSymlinks"
    /\ \/ GvReturn(ScanFailed("EvalSymlinks"), "EvalSymlinks")
       \/ pc' = "gvClone" /\ UNCHANGED <<pulled, liveTmp, found, imports>>
    /\ UNCHANGED <<callVars, recoverPanic, cfg, repoURLs, emitted, created, written, cnameFile,
                   crashed, exitCode>>

\* git clone --depth=1, lines 245-248
GvClone ==
    /\ pc = "gvClone"
    /\ \/ GvReturn(ScanFailed("clone"), "clone")
       \/ /\ Cloneable(repoURLs[Current])
          /\ pc' = "gvList" /\ UNCHANGED <<pulled, liveTmp, found, imports>>
    /\ UNCHANGED <<callVars, recoverPanic, cfg, repoURLs, emitted, created, written, cnameFile,
                   crashed, exitCode>>

\* go list: StdoutPipe and Start, lines 250-259
GvStartList ==
    /\ pc = "gvList"
    /\ \/ \E stage \in {"StdoutPipe", "Start"} : GvReturn(ScanFailed(stage), stage)
       \/ pc' = "gvScan" /\ UNCHANGED <<pulled, liveTmp, found, imports>>
    /\ UNCHANGED <<callVars, recoverPanic, cfg, repoURLs, emitted, created, written, cnameFile,
                   crashed, exitCode>>

\* the scanner loop and scanner.Err, lines 261-291
GvScan ==
    /\ pc = "gvScan"
    /\ LET pkgs == RepoPackages(repoURLs[Current])
           lines == [i \in 1..Len(pkgs) |-> ListLine(pkgs[i])]
       IN  \E exists \in [1..Len(pkgs) -> BOOLEAN] :
             LET scan == ScanLines(lines, args.prefix, repoURLs[Current], exists, <<>>)
             IN  IF scan.err # "" THEN GvReturn(scan, "scan")
                 ELSE \/ GvReturn(ScanFailed("scanner"), "scanner")
                      \/ /\ found' = scan.imports
                         /\ pc' = "gvWait"
                         /\ UNCHANGED <<pulled, liveTmp, imports>>
    /\ UNCHANGED <<callVars, recoverPanic, cfg, repoURLs, emitted, created, written, cnameFile,
                   crashed, exitCode>>

\* cmd.Wait and the final return, lines 293-297
GvWait ==
    /\ pc = "gvWait"
    /\ \/ GvReturn(ScanFailed("Wait"), "Wait")
       \/ GvReturn(ScanOK(found), "return")
    /\ UNCHANGED <<callVars, recoverPanic, cfg, repoURLs, emitted, created, written, cnameFile,
                   crashed, exitCode>>

\* the loop over imports: the next page, or the CNAME step
AfterEmit(all, done) == IF done < Len(all) THEN "emit" ELSE "cname"

\* one iteration of the page loop, lines 116-130. os.Create truncates the file;
\* tmpl.Execute calls ImportPrefix, whose panic either comes back as an error
\* or kills the process, as the toolchain has it.
Emit ==
    /\ pc = "emit"
    /\ IF emitted = Len(imports) THEN pc' = "cname" /\ UNCHANGED <<env, emitted, created, written, crashed, exitCode>>
       ELSE LET imprt == imports[emitted + 1]
                path == htmlPath(imprt.Import, args.prefix, args.out)
                prefix == ImportPrefix(imprt.Import, imprt.pathLen, omitHost)
            IN  \/ \* os.Create fails
                   /\ env' = [env EXCEPT !.fileErr = @ \cup {emitted + 1}]
                   /\ emitted' = emitted + 1 /\ pc' = AfterEmit(imports, emitted')
                   /\ UNCHANGED <<created, written, crashed, exitCode>>
                \/ \* the file is created, ImportPrefix panics
                   /\ prefix.panic
                   /\ created' = created \cup {path} /\ written' = written \ {path}
                   /\ IF recoverPanic
                      THEN /\ emitted' = emitted + 1 /\ pc' = AfterEmit(imports, emitted')
                           /\ UNCHANGED <<env, crashed, exitCode>>
                      ELSE /\ crashed' = TRUE /\ Exit(2)
                           /\ UNCHANGED <<env, emitted>>
                \/ \* the file is created, writing the page fails
                   /\ ~prefix.panic
                   /\ env' = [env EXCEPT !.fileErr = @ \cup {emitted + 1}]
                   /\ created' = created \cup {path} /\ written' = written \ {path}
                   /\ emitted' = emitted + 1 /\ pc' = AfterEmit(imports, emitted')
                   /\ UNCHANGED <<crashed, exitCode>>
                \/ \* the page is written
                   /\ ~prefix.panic
                   /\ created' = created \cup {path} /\ written' = written \cup {path}
                   /\ emitted' = emitted + 1 /\ pc' = AfterEmit(imports, emitted')
                   /\ UNCHANGED <<env, crashed, exitCode>>
    /\ UNCHANGED <<args, ret, omitHost, recoverPanic, cfg, repoURLs, pulled, liveTmp, found,
                   imports, cnameFile>>

\* a plausible slip: a failed CNAME write is only logged, like a failed page
ExitCodeIgnoringCNAME(cnameErr) == 0

\* lines 132-139 and 72-75: run returns the CNAME error, main exits 1 on it
ExitCodeOfRun(cnameErr) == IF cnameErr THEN 1 ELSE 0

\* lines 132-139
WriteCNAME ==
    /\ pc = "cname"
    /\ IF ~args.cname THEN Exit(ExitCodeOfRun(FALSE)) /\ UNCHANGED <<env, cnameFile>>
       ELSE \/ /\ env' = [env EXCEPT !.cnameErr = TRUE]
               /\ Exit(ExitCodeOfRun(TRUE))
               /\ UNCHANGED cnameFile
            \/ /\ cnameFile' = cfg.prefixURL.Host \o <<"\n">>
               /\ Exit(ExitCodeOfRun(FALSE))
               /\ UNCHANGED env
    /\ UNCHANGED <<args, ret, omitHost, recoverPanic, cfg, repoURLs, pulled, liveTmp, found,
                   imports, emitted, created, written, crashed>>

Next ==
    \/ Configuration
    \/ Enumerate
    \/ GvTempDir
    \/ GvEvalSymlinks
    \/ GvClone
    \/ GvStartList
    \/ GvScan
    \/ GvWait
    \/ Emit
    \/ WriteCNAME

Spec == Init /\ [][Next]_vars

----------------------------------------------------------------------------
(* Properties of run *)

GvInside == {"gvEvalSymlinks", "gvClone", "gvList", "gvScan", "gvWait"}

SomeRepositoryFailed == \E k \in 1..Len(pulled) : pulled[k].err # ""

\* the pages of the packages returned for repository k
PagesOf(k) ==
    {htmlPath(pulled[k].imports[j].Import, args.prefix, args.out) : j \in 1..Len(pulled[k].imports)}

RequiredSettingMissing ==
    args.prefix = <<>> \/ args.out = <<>> \/ SearchList(args.search) = <<>>

\* C3: when getVanityPackages fails for one repository, every other repository
\* is still extracted, the pages of all packages matched in the others are
\* written, and the process exits 0 (the required settings being given, and no
\* page or CNAME write being refused by the file system).
C3_OtherRepositoriesStillEmitted ==
    (pc = "exited" /\ SomeRepositoryFailed /\ ~RequiredSettingMissing
                   /\ env.fileErr = {} /\ ~env.cnameErr) =>
        /\ Len(pulled) = Len(repoURLs)
        /\ \A k \in 1..Len(pulled) : pulled[k].err = "" => PagesOf(k) \subseteq written
        /\ exitCode = 0

\* configuration() ends the process: too few arguments, flags refused, or
\* config.Parse returns an error
ConfigurationFails ==
    ~args.hasArgs \/ ~args.flagsOK \/ ConfigParse(args.prefix, args.search, args.out).err

\* C4 as stated: the process exits non-zero iff configuration fails or the
\* enumeration fails outright (getPotentialRepos returns no error, line 228, so
\* the latter never happens); repository, page and CNAME failures leave it 0.
C4_AsStated ==
    pc = "exited" => (exitCode # 0 <=> ConfigurationFails)

\* C4 amended: the process exits non-zero iff configuration fails, or the CNAME
\* file is asked for and cannot be written, or rendering a page dies of the
\* ImportPrefix panic; no repository failure and no failure to create or
\* write an HTML page changes the exit code.
C4_ExitCode ==
    pc = "exited" => (exitCode # 0 <=> (ConfigurationFails \/ env.cnameErr \/ crashed))

\* a repository failed, a page could not be written, and the exit code is 0
C4_Witness ==
    /\ pc = "exited" /\ exitCode = 0
    /\ SomeRepositoryFailed
    /\ env.fileErr # {}
    /\ written # {}

\* C5: with a required setting missing (prefix, out, or a search list with no
\* non-empty entry) the run ends non-zero before any repository is enumerated;
\* after a successful Parse the search list is non-empty and its entries are
\* non-empty and trimmed.
C5_RequiredSettingsEnforced ==
    /\ RequiredSettingMissing =>
        /\ pc \in {"configuration", "exited"}
        /\ pc = "exited" => (exitCode # 0 /\ env.answers = <<>> /\ repoURLs = <<>>)
    /\ (cfg.parsed /\ ~cfg.err) =>
        /\ cfg.searchList # <<>>
        /\ \A i \in 1..Len(cfg.searchList) :
            cfg.searchList[i] # <<>> /\ TrimSpace(cfg.searchList[i]) = cfg.searchList[i]

\* C10: whenever control is outside getVanityPackages no temporary directory is
\* left on disk: each return after TempDir succeeded has removed it, before the
\* next repository is pulled; inside, only the current repository's exists.
C10_TempDirRemoved ==
    liveTmp \subseteq (IF pc \in GvInside THEN {Current} ELSE {})

\* returns after a failed clone, a line whose directory does not resolve, and a
\* success, all cleaned up
C10_Witness ==
    /\ Len(pulled) >= 3
    /\ pulled[1].err = "clone" /\ pulled[2].err = "EvalSymlinks dir" /\ pulled[3].err = ""
    /\ liveTmp = {}

====
